---- MODULE Spec2Model ----
(***************************************************************************)
(* Status page tracker: StatusPageMonitor (conditional fetch, change       *)
(* detection, callbacks) and run_monitors (asyncio supervisor).            *)
(*                                                                         *)
(* One asyncio event loop runs every monitor task.  A coroutine runs       *)
(* without interruption between two awaits, so every action below is the   *)
(* code between two suspension points.  _process_entries and the callback  *)
(* are synchronous: while a monitor is inside them (pc "process" or        *)
(* "callback") no other task and no signal handler can run.                *)
(***************************************************************************)
EXTENDS Integers, Sequences, FiniteSets, TLC

\* ---------------------------------------------------------------- bounds
MaxEntries == 2      \* longest feed payload (number of entries)
MaxStamp   == 2      \* entry timestamps and clock readings are 1..MaxStamp
PollTicks  == 1      \* clock ticks one poll_interval lasts

\* ---------------------------------------------------------------- values
Names     == {"OpenAI", "GitHub", "Stripe"}
Ids       == {"inc1", "inc2"}
None      == "None"
ETags     == {None, "etag1"}
LastMods  == {None, "lm1"}
NoStamp   == 0
Stamps    == 1..MaxStamp

\* A feedparser entry, reduced to the two fields change detection reads:
\* its id and its updated_parsed/published_parsed time (NoStamp: neither).
Entries   == [id : Ids, updated_parsed : {NoStamp} \cup Stamps]

SeqsUpTo(S, n) == UNION {[1..k -> S] : k \in 0..n}

\* The payloads a feed server may serve.  main() configures the single
\* "OpenAI" monitor; the other names are the additional providers of the
\* multi-monitor configuration, served from a smaller universe of feeds.
SiblingEntries == [id : {"inc1"}, updated_parsed : {1}]

FeedPayloads(m) ==
    IF m = "OpenAI" THEN SeqsUpTo(Entries, MaxEntries)
                    ELSE SeqsUpTo(SiblingEntries, MaxEntries)

VARIABLES
    monitors,        \* the list handed to run_monitors
    sup,             \* run_monitors: "init", "gathering", "returned", "raised"
    stop_requested,  \* _shutdown has run (history)
    pc,              \* position of each monitor task
    running,         \* StatusPageMonitor._running
    etag,            \* StatusPageMonitor._etag
    last_modified,   \* StatusPageMonitor._last_modified
    seen_incidents,  \* StatusPageMonitor._seen_incidents (dict id -> key)
    headers,         \* _check_feed: headers of the request of this cycle
    resp_headers,    \* _check_feed: ETag, Last-Modified of the last 200 response
    initial,         \* _check_feed / _process_entries: parameter initial
    entries,         \* _process_entries: parameter entries
    idx,             \* _process_entries: position of the for loop
    new_seen,        \* _process_entries: local new_seen
    incidents,       \* incidents parse_incident returned in this cycle
    calls,           \* callback invocations of this cycle, in order
    outcome,         \* how the last cycle ended (history)
    prev_incidents,  \* incidents of the last cycle that was processed
    prev_entries,    \* entries of the last cycle that was processed
    older_incidents, \* incidents of the processed cycle before that one
    sleep_left       \* ticks left of asyncio.sleep(poll_interval)

supv  == <<monitors, sup, stop_requested>>
ctl   == <<pc, running, sleep_left, outcome>>
cache == <<etag, last_modified, headers, resp_headers>>
loc   == <<initial, entries, idx, new_seen, incidents, calls>>
store == <<seen_incidents, prev_incidents, prev_entries, older_incidents>>
vars  == <<supv, ctl, cache, loc, store>>

\* ------------------------------------------------------- pure functions
\* datetime.isoformat(): the string key stored in the snapshot.
isoformat(t) == <<"iso", t>>

\* _parse_timestamp: the entry's time, or the clock when it has none.
parse_timestamp(entry, now) ==
    IF entry.updated_parsed # NoStamp THEN entry.updated_parsed ELSE now

\* parse_incident, reduced to the fields change detection reads.
parse_incident(entry, now) ==
    [id |-> entry.id, updated_at |-> parse_timestamp(entry, now)]

\* dict.get(k) is None
Absent(d, k) == k \notin DOMAIN d

\* d[k] = v   (dict item assignment)
DictPut(d, k, v) == [x \in (DOMAIN d) \cup {k} |-> IF x = k THEN v ELSE d[x]]

EmptyDict == [x \in {} |-> 0]

\* _process_entries, lines 384-390: fire on a new or an updated incident.
FiresCallback(seen, incident) ==
    \/ Absent(seen, incident.id)
    \/ seen[incident.id] # isoformat(incident.updated_at)

\* _check_feed, lines 329-333: the conditional request headers.
BuildHeaders(e, lm) ==
    [h \in  (IF e # None THEN {"If-None-Match"} ELSE {})
       \cup (IF lm # None THEN {"If-Modified-Since"} ELSE {})
     |-> IF h = "If-None-Match" THEN e ELSE lm]

\* ------------------------------------------------------------ scheduling
InSync(m) == pc[m] \in {"process", "callback"}

\* The event loop can run a step of a task (or a handler): no task is in a
\* synchronous section, and every task created by run_monitors has run its
\* first step (tasks start in creation order, before any later event).
LoopFree == \A o \in monitors : ~InSync(o) /\ pc[o] # "idle"

Live(m) == pc[m] \in {"await_resp", "await_body", "process", "callback", "sleeping"}
Done(m) == pc[m] \in {"stopped", "failed", "cancelled"}

\* ------------------------------------------------------------------ Init
InitWith(ms) ==
    /\ monitors = ms
    /\ sup = "init"
    /\ stop_requested = FALSE
    /\ pc = [m \in ms |-> "idle"]
    /\ running = [m \in ms |-> FALSE]
    /\ etag = [m \in ms |-> None]
    /\ last_modified = [m \in ms |-> None]
    /\ seen_incidents = [m \in ms |-> EmptyDict]
    /\ headers = [m \in ms |-> EmptyDict]
    /\ resp_headers = [m \in ms |-> <<None, None>>]
    /\ initial = [m \in ms |-> FALSE]
    /\ entries = [m \in ms |-> <<>>]
    /\ idx = [m \in ms |-> 1]
    /\ new_seen = [m \in ms |-> EmptyDict]
    /\ incidents = [m \in ms |-> <<>>]
    /\ calls = [m \in ms |-> <<>>]
    /\ outcome = [m \in ms |-> "none"]
    /\ prev_incidents = [m \in ms |-> {}]
    /\ prev_entries = [m \in ms |-> {}]
    /\ older_incidents = [m \in ms |-> {}]
    /\ sleep_left = [m \in ms |-> 0]

\* main(): one monitor, "OpenAI API".
Init == InitWith({"OpenAI"})

\* main() with the additional providers enabled.
InitMulti == InitWith({"GitHub", "Stripe"})

\* One monitor of a provider with the small feed.
InitSmall == InitWith({"GitHub"})

\* ------------------------------------------------------------ supervisor
\* run_monitors up to "await asyncio.gather": handlers registered, tasks
\* created.
run_monitors ==
    /\ sup = "init"
    /\ sup' = "gathering"
    /\ UNCHANGED <<monitors, stop_requested, ctl, cache, loc, store>>

\* _shutdown: the signal handler calls stop() on every monitor.
shutdown ==
    /\ sup = "gathering"
    /\ LoopFree
    /\ running' = [m \in monitors |-> FALSE]
    /\ stop_requested' = TRUE
    /\ UNCHANGED <<monitors, sup, pc, sleep_left, outcome, cache, loc, store>>

\* asyncio.gather(*tasks) completes: every task returned.
gather_return ==
    /\ sup = "gathering"
    /\ LoopFree
    /\ \A m \in monitors : pc[m] = "stopped"
    /\ sup' = "returned"
    /\ UNCHANGED <<monitors, stop_requested, ctl, cache, loc, store>>

\* asyncio.gather(*tasks) without return_exceptions: the first exception
\* of a task is raised in run_monitors, which catches only CancelledError.
gather_raise ==
    /\ sup = "gathering"
    /\ LoopFree
    /\ \E m \in monitors : pc[m] = "failed"
    /\ sup' = "raised"
    /\ UNCHANGED <<monitors, stop_requested, ctl, cache, loc, store>>

\* asyncio.run(run_monitors(...)) in main(): once run_monitors is over, the
\* tasks still pending are cancelled at the await they are suspended in.
asyncio_run_cancel(m) ==
    /\ sup = "raised"
    /\ pc[m] \in {"await_resp", "await_body", "sleeping"}
    /\ pc' = [pc EXCEPT ![m] = "cancelled"]
    /\ outcome' = [outcome EXCEPT ![m] = "Cancelled"]
    /\ UNCHANGED <<supv, running, sleep_left, cache, loc, store>>

\* --------------------------------------------------------------- monitor
\* start(), lines 313-317 after _check_feed returned: the while test, then
\* asyncio.sleep(poll_interval), or the end of start().
EndCycle(m, how) ==
    /\ outcome' = [outcome EXCEPT ![m] = how]
    /\ pc' = [pc EXCEPT ![m] = IF running[m] THEN "sleeping" ELSE "stopped"]
    /\ sleep_left' = [sleep_left EXCEPT ![m] = IF running[m] THEN PollTicks ELSE 0]
    /\ UNCHANGED running

\* _check_feed up to "async with session.get(...)": build the headers and
\* send the request.
BeginCheck(m, init) ==
    /\ headers' = [headers EXCEPT ![m] = BuildHeaders(etag[m], last_modified[m])]
    /\ initial' = [initial EXCEPT ![m] = init]
    /\ entries' = [entries EXCEPT ![m] = <<>>]
    /\ idx' = [idx EXCEPT ![m] = 1]
    /\ new_seen' = [new_seen EXCEPT ![m] = EmptyDict]
    /\ incidents' = [incidents EXCEPT ![m] = <<>>]
    /\ calls' = [calls EXCEPT ![m] = <<>>]
    /\ outcome' = [outcome EXCEPT ![m] = "InFlight"]
    /\ pc' = [pc EXCEPT ![m] = "await_resp"]
    /\ sleep_left' = [sleep_left EXCEPT ![m] = 0]
    /\ UNCHANGED <<etag, last_modified, resp_headers>>

\* start(): _running = True, then the initial _check_feed.
start(m) ==
    /\ sup = "gathering"
    /\ pc[m] = "idle"
    /\ \A o \in monitors : ~InSync(o)
    /\ running' = [running EXCEPT ![m] = TRUE]
    /\ BeginCheck(m, TRUE)
    /\ UNCHANGED <<supv, store>>

\* Respond304 with the 304 test placed after the token update of lines
\* 352-353: a 304 response carries no tokens, so both become None.
Respond304_TokensFirst(m) ==
    /\ pc[m] = "await_resp"
    /\ LoopFree
    /\ etag' = [etag EXCEPT ![m] = None]
    /\ last_modified' = [last_modified EXCEPT ![m] = None]
    /\ EndCycle(m, "NotModified")
    /\ UNCHANGED <<supv, headers, resp_headers, loc, store>>

\* 304 Not Modified, lines 339-343.
Respond304(m) ==
    /\ pc[m] = "await_resp"
    /\ LoopFree
    /\ EndCycle(m, "NotModified")
    /\ UNCHANGED <<supv, cache, loc, store>>

\* A status other than 200 and 304, lines 345-349.
RespondOther(m) ==
    /\ pc[m] = "await_resp"
    /\ LoopFree
    /\ EndCycle(m, "TransientFailure")
    /\ UNCHANGED <<supv, cache, loc, store>>

\* aiohttp.ClientError or asyncio.TimeoutError before the response headers
\* arrived, lines 357-359.
RequestError(m) ==
    /\ pc[m] = "await_resp"
    /\ LoopFree
    /\ EndCycle(m, "TransientFailure")
    /\ UNCHANGED <<supv, cache, loc, store>>

\* Respond200 with lines 352-353 keeping the stored token when the response
\* omits it (resp.headers.get("ETag", self._etag)).
Respond200_Inherit(m) ==
    /\ pc[m] = "await_resp"
    /\ LoopFree
    /\ \E e \in ETags, lm \in LastMods :
          /\ resp_headers' = [resp_headers EXCEPT ![m] = <<e, lm>>]
          /\ etag' = [etag EXCEPT ![m] = IF e = None THEN @ ELSE e]
          /\ last_modified' = [last_modified EXCEPT ![m] = IF lm = None THEN @ ELSE lm]
    /\ pc' = [pc EXCEPT ![m] = "await_body"]
    /\ UNCHANGED <<supv, running, sleep_left, outcome, headers, loc, store>>

\* 200: the tokens are stored (lines 352-353), then the body is awaited.
Respond200(m) ==
    /\ pc[m] = "await_resp"
    /\ LoopFree
    /\ \E e \in ETags, lm \in LastMods :
          /\ resp_headers' = [resp_headers EXCEPT ![m] = <<e, lm>>]
          /\ etag' = [etag EXCEPT ![m] = e]
          /\ last_modified' = [last_modified EXCEPT ![m] = lm]
    /\ pc' = [pc EXCEPT ![m] = "await_body"]
    /\ UNCHANGED <<supv, running, sleep_left, outcome, headers, loc, store>>

\* aiohttp.ClientError or asyncio.TimeoutError raised by "await
\* resp.text()", caught at lines 357-359.
BodyError(m) ==
    /\ pc[m] = "await_body"
    /\ LoopFree
    /\ EndCycle(m, "TransientFailure")
    /\ UNCHANGED <<supv, cache, loc, store>>

\* BodyMalformed without the test of lines 363-365: the malformed payload is
\* handed to _process_entries as a feed with no entries.
BodyMalformed_Processed(m) ==
    /\ pc[m] = "await_body"
    /\ LoopFree
    /\ seen_incidents' = [seen_incidents EXCEPT ![m] = EmptyDict]
    /\ EndCycle(m, "Malformed")
    /\ UNCHANGED <<supv, cache, loc, prev_incidents, prev_entries, older_incidents>>

\* The body arrived and feedparser found it malformed with no entries,
\* lines 362-365.
BodyMalformed(m) ==
    /\ pc[m] = "await_body"
    /\ LoopFree
    /\ EndCycle(m, "Malformed")
    /\ UNCHANGED <<supv, cache, loc, store>>

\* The body arrived and parsed: _process_entries is entered, line 367.
BodyParsed(m) ==
    /\ pc[m] = "await_body"
    /\ LoopFree
    /\ \E p \in FeedPayloads(m) : entries' = [entries EXCEPT ![m] = p]
    /\ idx' = [idx EXCEPT ![m] = 1]
    /\ new_seen' = [new_seen EXCEPT ![m] = EmptyDict]
    /\ pc' = [pc EXCEPT ![m] = "process"]
    /\ UNCHANGED <<supv, running, sleep_left, outcome, cache, initial,
                   incidents, calls, store>>

\* One iteration of the for loop up to the callback, lines 373-390.
ProcessEntry(m) ==
    /\ pc[m] = "process"
    /\ idx[m] <= Len(entries[m])
    /\ \E now \in Stamps :
         LET incident == parse_incident(entries[m][idx[m]], now)
             updated_key == isoformat(incident.updated_at)
             fire == initial[m] \/ FiresCallback(seen_incidents[m], incident)
         IN /\ new_seen' = [new_seen EXCEPT ![m] = DictPut(@, incident.id, updated_key)]
            /\ incidents' = [incidents EXCEPT ![m] = Append(@, incident)]
            /\ calls' = [calls EXCEPT ![m] = IF fire THEN Append(@, incident) ELSE @]
            /\ pc' = [pc EXCEPT ![m] = IF fire THEN "callback" ELSE "process"]
            /\ idx' = [idx EXCEPT ![m] = IF fire THEN @ ELSE @ + 1]
    /\ UNCHANGED <<supv, running, sleep_left, outcome, cache, initial, entries, store>>

\* parse_incident raises (a category tag whose label is None makes
\* _parse_status call None.lower()); nothing in _process_entries,
\* _check_feed or start() catches it.
ParseRaise(m) ==
    /\ pc[m] = "process"
    /\ idx[m] <= Len(entries[m])
    /\ pc' = [pc EXCEPT ![m] = "failed"]
    /\ outcome' = [outcome EXCEPT ![m] = "ParseFailure"]
    /\ UNCHANGED <<supv, running, sleep_left, cache, loc, store>>

\* The callback returns: next iteration.
CallbackReturn(m) ==
    /\ pc[m] = "callback"
    /\ pc' = [pc EXCEPT ![m] = "process"]
    /\ idx' = [idx EXCEPT ![m] = @ + 1]
    /\ UNCHANGED <<supv, running, sleep_left, outcome, cache, initial, entries,
                   new_seen, incidents, calls, store>>

\* The callback raises; nothing in _process_entries, _check_feed or start()
\* catches it.
CallbackRaise(m) ==
    /\ pc[m] = "callback"
    /\ pc' = [pc EXCEPT ![m] = "failed"]
    /\ outcome' = [outcome EXCEPT ![m] = "SinkFailure"]
    /\ UNCHANGED <<supv, running, sleep_left, cache, loc, store>>

\* FinishCore with _seen_incidents a class attribute mutated in place, one
\* dict shared by every StatusPageMonitor, instead of the instance attribute
\* of line 294.
FinishCore_Shared(m) ==
    /\ pc[m] = "process"
    /\ idx[m] > Len(entries[m])
    /\ seen_incidents' = [o \in monitors |-> new_seen[m]]
    /\ EndCycle(m, "Processed")
    /\ UNCHANGED <<supv, cache, loc>>

\* FinishCore with line 392 updating the snapshot in place
\* (self._seen_incidents.update(new_seen)) instead of replacing it.
FinishCore_Update(m) ==
    /\ pc[m] = "process"
    /\ idx[m] > Len(entries[m])
    /\ seen_incidents' = [seen_incidents EXCEPT ![m] =
          [k \in (DOMAIN @) \cup (DOMAIN new_seen[m]) |->
              IF k \in DOMAIN new_seen[m] THEN new_seen[m][k] ELSE @[k]]]
    /\ EndCycle(m, "Processed")
    /\ UNCHANGED <<supv, cache, loc>>

\* The loop is over: the snapshot is replaced, line 392, and _check_feed
\* returns.
FinishCore(m) ==
    /\ pc[m] = "process"
    /\ idx[m] > Len(entries[m])
    /\ seen_incidents' = [seen_incidents EXCEPT ![m] = new_seen[m]]
    /\ EndCycle(m, "Processed")
    /\ UNCHANGED <<supv, cache, loc>>

FinishProcess(m) ==
    /\ FinishCore(m)
    /\ UNCHANGED <<prev_incidents, prev_entries, older_incidents>>

\* FinishProcess, recording the history variables prev_incidents and
\* prev_entries.
FinishProcessH(m) ==
    /\ FinishCore(m)
    /\ prev_incidents' = [prev_incidents EXCEPT ![m] = {incidents[m]}]
    /\ prev_entries' = [prev_entries EXCEPT ![m] = {entries[m]}]
    /\ UNCHANGED older_incidents

\* FinishProcessH, recording the history variable older_incidents as well.
FinishProcessH2(m) ==
    /\ FinishCore(m)
    /\ prev_incidents' = [prev_incidents EXCEPT ![m] = {incidents[m]}]
    /\ prev_entries' = [prev_entries EXCEPT ![m] = {entries[m]}]
    /\ older_incidents' = [older_incidents EXCEPT ![m] = prev_incidents[m]]

\* Time passes: every running asyncio.sleep gets one tick closer to its end.
Tick ==
    /\ \E m \in monitors : pc[m] = "sleeping" /\ sleep_left[m] > 0
    /\ sleep_left' = [m \in monitors |->
                        IF pc[m] = "sleeping" /\ sleep_left[m] > 0
                        THEN sleep_left[m] - 1 ELSE sleep_left[m]]
    /\ UNCHANGED <<supv, pc, running, outcome, cache, loc, store>>

\* Wake with the next _check_feed started as soon as the interval is over,
\* without waiting for the previous one to return (a fetch per timer tick
\* instead of "await self._check_feed" in the loop).
Wake_Overlap(m) ==
    /\ \/ pc[m] = "callback"
       \/ pc[m] = "sleeping" /\ sleep_left[m] = 0 /\ LoopFree
    /\ IF running[m]
       THEN /\ BeginCheck(m, FALSE)
            /\ UNCHANGED <<supv, running, store>>
       ELSE /\ pc' = [pc EXCEPT ![m] = "stopped"]
            /\ UNCHANGED <<supv, running, sleep_left, outcome, cache, loc, store>>

\* Wake with line 317 passing initial=True as line 311 does.
Wake_InitialAgain(m) ==
    /\ pc[m] = "sleeping"
    /\ sleep_left[m] = 0
    /\ LoopFree
    /\ IF running[m]
       THEN /\ BeginCheck(m, TRUE)
            /\ UNCHANGED <<supv, running, store>>
       ELSE /\ pc' = [pc EXCEPT ![m] = "stopped"]
            /\ UNCHANGED <<supv, running, sleep_left, outcome, cache, loc, store>>

\* asyncio.sleep(poll_interval) is over, lines 315-317: stop, or the next
\* _check_feed.
Wake(m) ==
    /\ pc[m] = "sleeping"
    /\ sleep_left[m] = 0
    /\ LoopFree
    /\ IF running[m]
       THEN /\ BeginCheck(m, FALSE)
            /\ UNCHANGED <<supv, running, store>>
       ELSE /\ pc' = [pc EXCEPT ![m] = "stopped"]
            /\ UNCHANGED <<supv, running, sleep_left, outcome, cache, loc, store>>

Next ==
    \/ run_monitors
    \/ shutdown
    \/ gather_return
    \/ gather_raise
    \/ Tick
    \/ \E m \in monitors : start(m)
    \/ \E m \in monitors : Respond304(m)
    \/ \E m \in monitors : RespondOther(m)
    \/ \E m \in monitors : RequestError(m)
    \/ \E m \in monitors : Respond200(m)
    \/ \E m \in monitors : BodyError(m)
    \/ \E m \in monitors : BodyMalformed(m)
    \/ \E m \in monitors : BodyParsed(m)
    \/ \E m \in monitors : ProcessEntry(m)
    \/ \E m \in monitors : ParseRaise(m)
    \/ \E m \in monitors : CallbackReturn(m)
    \/ \E m \in monitors : CallbackRaise(m)
    \/ \E m \in monitors : FinishProcess(m)
    \/ \E m \in monitors : Wake(m)

NextH ==
    \/ run_monitors
    \/ shutdown
    \/ gather_return
    \/ gather_raise
    \/ Tick
    \/ \E m \in monitors : start(m)
    \/ \E m \in monitors : Respond304(m)
    \/ \E m \in monitors : RespondOther(m)
    \/ \E m \in monitors : RequestError(m)
    \/ \E m \in monitors : Respond200(m)
    \/ \E m \in monitors : BodyError(m)
    \/ \E m \in monitors : BodyMalformed(m)
    \/ \E m \in monitors : BodyParsed(m)
    \/ \E m \in monitors : ProcessEntry(m)
    \/ \E m \in monitors : ParseRaise(m)
    \/ \E m \in monitors : CallbackReturn(m)
    \/ \E m \in monitors : CallbackRaise(m)
    \/ \E m \in monitors : FinishProcessH(m)
    \/ \E m \in monitors : Wake(m)

NextH2 ==
    \/ run_monitors
    \/ shutdown
    \/ gather_return
    \/ gather_raise
    \/ Tick
    \/ \E m \in monitors : start(m)
    \/ \E m \in monitors : Respond304(m)
    \/ \E m \in monitors : RespondOther(m)
    \/ \E m \in monitors : RequestError(m)
    \/ \E m \in monitors : Respond200(m)
    \/ \E m \in monitors : BodyError(m)
    \/ \E m \in monitors : BodyMalformed(m)
    \/ \E m \in monitors : BodyParsed(m)
    \/ \E m \in monitors : ProcessEntry(m)
    \/ \E m \in monitors : ParseRaise(m)
    \/ \E m \in monitors : CallbackReturn(m)
    \/ \E m \in monitors : CallbackRaise(m)
    \/ \E m \in monitors : FinishProcessH2(m)
    \/ \E m \in monitors : Wake(m)

NextMulti ==
    \/ run_monitors
    \/ shutdown
    \/ gather_return
    \/ gather_raise
    \/ Tick
    \/ \E m \in monitors : start(m)
    \/ \E m \in monitors : Respond304(m)
    \/ \E m \in monitors : RespondOther(m)
    \/ \E m \in monitors : RequestError(m)
    \/ \E m \in monitors : Respond200(m)
    \/ \E m \in monitors : BodyError(m)
    \/ \E m \in monitors : BodyMalformed(m)
    \/ \E m \in monitors : BodyParsed(m)
    \/ \E m \in monitors : ProcessEntry(m)
    \/ \E m \in monitors : ParseRaise(m)
    \/ \E m \in monitors : CallbackReturn(m)
    \/ \E m \in monitors : CallbackRaise(m)
    \/ \E m \in monitors : FinishProcess(m)
    \/ \E m \in monitors : Wake(m)
    \/ \E m \in monitors : asyncio_run_cancel(m)

\* main() as written: one monitor.
Spec == Init /\ [][Next]_vars

\* Spec with the history variables prev_incidents and prev_entries.
SpecH == Init /\ [][NextH]_vars

\* Two monitors under run_monitors and asyncio.run.
SpecMulti == InitMulti /\ [][NextMulti]_vars

\* One monitor with the small feed and the history variables.
SpecSmall == InitSmall /\ [][NextH]_vars

\* SpecSmall with the history of the last two processed cycles.
SpecSmall2 == InitSmall /\ [][NextH2]_vars

\* ================================================================ claims
\* _process_entries is over for a feed whose entries all normalize: the loop
\* ran out, or the callback's exception left it.
ProcessingOver(m) ==
    \/ pc[m] = "process" /\ idx[m] > Len(entries[m])
    \/ pc[m] = "failed" /\ outcome[m] = "SinkFailure"

NewOrUpdated(m, incident) == FiresCallback(seen_incidents[m], incident)

\* C1: in every non-initial processing cycle every incident of the feed is
\* normalized, and the callback is invoked, in feed order, with exactly the
\* incidents whose id is absent from the previous snapshot or whose stored
\* updated-at differs.
C1_NotifyIffNewOrUpdated ==
    \A m \in monitors :
        (ProcessingOver(m) /\ ~initial[m]) =>
            /\ Len(incidents[m]) = Len(entries[m])
            /\ calls[m] = SelectSeq(incidents[m], LAMBDA i : NewOrUpdated(m, i))

\* C2: in an initial cycle with a non-empty feed every incident is passed to
\* the callback exactly once, in feed order.
C2_InitialNotifiesAll ==
    \A m \in monitors :
        (ProcessingOver(m) /\ initial[m] /\ entries[m] # <<>>) =>
            /\ Len(incidents[m]) = Len(entries[m])
            /\ calls[m] = incidents[m]

\* C3: a non-initial cycle that receives exactly the incidents of the
\* processing cycle before it invokes the callback zero times.
C3_RepeatIsSilent ==
    \A m \in monitors :
        (/\ pc[m] \in {"process", "callback", "failed"}
         /\ ~initial[m]
         /\ Len(incidents[m]) = Len(entries[m])
         /\ prev_incidents[m] = {incidents[m]}) => calls[m] = <<>>

\* C4: a cycle that ends with 304 Not Modified runs no parser and no
\* callback and leaves the validators (equal to the ones its request was
\* built from) and the snapshot as they were; the snapshot changes only in
\* the step that ends a processed cycle.
C4_NotModifiedNoOp ==
    [][\A m \in monitors :
          /\ (outcome[m] = "InFlight" /\ outcome'[m] = "NotModified") =>
                /\ etag'[m] = etag[m]
                /\ last_modified'[m] = last_modified[m]
                /\ BuildHeaders(etag'[m], last_modified'[m]) = headers[m]
                /\ seen_incidents'[m] = seen_incidents[m]
                /\ incidents'[m] = <<>>
                /\ calls'[m] = <<>>
          /\ (seen_incidents'[m] # seen_incidents[m]) =>
                (outcome[m] = "InFlight" /\ outcome'[m] = "Processed")]_vars

\* A 304 answered a request that carried a validator, with a snapshot held.
C4_Witness ==
    \E m \in monitors :
        /\ outcome[m] = "NotModified"
        /\ "If-None-Match" \in DOMAIN headers[m]
        /\ etag[m] # None
        /\ seen_incidents[m] # EmptyDict

\* C5: a cycle that ends as a TransientFailure leaves the validators and the
\* snapshot as they were before the cycle and invokes no callback, so the
\* next request carries the headers this one carried.
C5_TransientFailureNoOp ==
    [][\A m \in monitors :
          (outcome[m] = "InFlight" /\ outcome'[m] = "TransientFailure") =>
                /\ BuildHeaders(etag'[m], last_modified'[m]) = headers[m]
                /\ seen_incidents'[m] = seen_incidents[m]
                /\ calls'[m] = <<>>]_vars

\* C6: however the callback ends for one incident (returning or raising),
\* the loop goes on with the next incident of the cycle, and no monitor is
\* ever left dead by a callback error.
C6_SinkFailureIsolated ==
    [][\A m \in monitors :
          (pc[m] = "callback" /\ pc'[m] # "callback") =>
                (pc'[m] = "process" /\ idx'[m] = idx[m] + 1)]_vars

\* C7: when parse_incident raises in monitor a, a has notified nothing in
\* that cycle, and no sibling is stopped by it.
C7_ParseFailureIsolated ==
    \A a \in monitors :
        outcome[a] = "ParseFailure" =>
            /\ calls[a] = <<>>
            /\ \A b \in monitors \ {a} : pc[b] # "cancelled"

\* C8: a monitor task is over only after stop() has been called on it.
C8_EndsOnlyOnStop ==
    \A m \in monitors : Done(m) => stop_requested

\* C9: when run_monitors is over (returned or raised) no monitor task is
\* still fetching, notifying or sleeping.
C9_JoinAllBarrier ==
    sup \in {"returned", "raised"} => \A m \in monitors : ~Live(m)

\* C10: a monitor whose stop was requested during its sleep is woken at
\* once: it has no part of the poll interval left to wait.
C10_StopWakesSleeper ==
    \A m \in monitors :
        (pc[m] = "sleeping" /\ stop_requested) => sleep_left[m] = 0

\* C11: once stop() has been called on a running monitor, the cycle in
\* flight is carried through (no exception or cancellation ends the task,
\* and a cycle that ends leaves the task Stopped), no new fetch is sent, and
\* a Stopped monitor never moves, fetches or notifies again.
C11_StopLetsCycleFinish ==
    [][\A m \in monitors :
         /\ (stop_requested /\ Live(m)) =>
              /\ pc'[m] \notin {"failed", "cancelled"}
              /\ (pc[m] # "await_resp" => pc'[m] # "await_resp")
              /\ (outcome[m] = "InFlight" /\ outcome'[m] # "InFlight")
                    => pc'[m] = "stopped"
         /\ pc[m] = "stopped" =>
              /\ pc'[m] = "stopped"
              /\ calls'[m] = calls[m]
              /\ headers'[m] = headers[m]]_vars

\* C12: while the callback of monitor a is executing, every other monitor b
\* can take its next step: handle the response or the body it awaits, or
\* wake from a sleep that is over.
C12_SlowSinkDelaysOnlyOwner ==
    \A a \in monitors : \A b \in monitors \ {a} :
        pc[a] = "callback" =>
            /\ pc[b] = "await_resp" =>
                 ENABLED (Respond304(b) \/ RespondOther(b) \/ RequestError(b)
                          \/ Respond200(b))
            /\ pc[b] = "await_body" =>
                 ENABLED (BodyError(b) \/ BodyMalformed(b) \/ BodyParsed(b))
            /\ (pc[b] = "sleeping" /\ sleep_left[b] = 0) => ENABLED Wake(b)

\* C13: a cycle whose 200 payload is malformed with no entry invokes no
\* callback, keeps the snapshot, raises nothing, and leaves the monitor
\* asleep for its next cycle unless stop() was called.
C13_MalformedNoOp ==
    [][\A m \in monitors :
         (outcome[m] = "InFlight" /\ outcome'[m] = "Malformed") =>
            /\ calls'[m] = <<>>
            /\ incidents'[m] = <<>>
            /\ seen_incidents'[m] = seen_incidents[m]
            /\ pc'[m] = IF running[m] THEN "sleeping" ELSE "stopped"
            /\ sup' = sup]_vars

\* A malformed payload came after a cycle that left a snapshot, and the
\* monitor sleeps towards its next cycle.
C13_Witness ==
    \E m \in monitors :
        /\ outcome[m] = "Malformed"
        /\ seen_incidents[m] # EmptyDict
        /\ pc[m] = "sleeping"

\* C14: normalization is deterministic: a cycle that has normalized the same
\* entries as the last processed cycle has built the same incidents, with
\* the same identities and updated-at values in the same order.
C14_NormalizationDeterministic ==
    \A m \in monitors :
        (/\ pc[m] = "process"
         /\ idx[m] > Len(entries[m])
         /\ prev_entries[m] = {entries[m]})
            => prev_incidents[m] = {incidents[m]}

\* C15: a cycle is processed with initial=True exactly when it is the
\* monitor's first successful cycle, that is when no cycle was processed
\* before it.
C15_InitialOnFirstSuccess ==
    \A m \in monitors :
        pc[m] \in {"process", "callback"} =>
            (initial[m] <=> prev_incidents[m] = {})

\* C15, amended: initial is True exactly in the cycle start() begins before
\* its loop (the first fetch attempt, whether it succeeds or not); every
\* cycle begun after a sleep has initial False, and the flag is fixed while
\* a cycle runs.
C15_InitialOnFirstAttempt ==
    [][\A m \in monitors :
         IF pc'[m] = "await_resp" /\ pc[m] # "await_resp"
         THEN initial'[m] <=> pc[m] = "idle"
         ELSE pc[m] # "idle" => initial'[m] = initial[m]]_vars

\* The first attempt did not succeed, and the first cycle to be processed
\* runs with initial False.
C15_Witness ==
    \E m \in monitors :
        /\ pc[m] = "process"
        /\ ~initial[m]
        /\ prev_incidents[m] = {}

\* C16: the validators are always the tokens of the most recent 200
\* response, an omitted token being None, and a request in flight carries a
\* precondition header only for a token that response held, with its value.
C16_ValidatorsAreLast200Tokens ==
    \A m \in monitors :
        /\ etag[m] = resp_headers[m][1]
        /\ last_modified[m] = resp_headers[m][2]
        /\ pc[m] = "await_resp" =>
             /\ "If-None-Match" \in DOMAIN headers[m] =>
                  /\ resp_headers[m][1] # None
                  /\ headers[m]["If-None-Match"] = resp_headers[m][1]
             /\ "If-Modified-Since" \in DOMAIN headers[m] =>
                  /\ resp_headers[m][2] # None
                  /\ headers[m]["If-Modified-Since"] = resp_headers[m][2]

\* A request went out with If-None-Match, and the 200 that answered it held
\* no ETag: the stored ETag is gone.
C16_Witness ==
    \E m \in monitors :
        /\ pc[m] = "await_body"
        /\ "If-None-Match" \in DOMAIN headers[m]
        /\ resp_headers[m][1] = None
        /\ etag[m] = None

\* The position of the last incident of incs with identity k.
LastIndexOf(incs, k) ==
    CHOOSE i \in 1..Len(incs) :
        /\ incs[i].id = k
        /\ \A j \in (i + 1)..Len(incs) : incs[j].id # k

\* C17: when _process_entries returns, the snapshot's keys are exactly the
\* identities of the cycle's incidents (an identity only the previous
\* snapshot held is dropped, and was not notified), and each key maps to the
\* updated-at of the last incident with that identity in feed order.
C17_SnapshotIsCurrentFeed ==
    [][\A m \in monitors :
         (outcome[m] = "InFlight" /\ outcome'[m] = "Processed") =>
            LET incs == incidents[m]
                ids == {incs[i].id : i \in 1..Len(incs)}
            IN /\ Len(incs) = Len(entries[m])
               /\ DOMAIN seen_incidents'[m] = ids
               /\ \A k \in ids :
                    seen_incidents'[m][k] =
                        isoformat(incs[LastIndexOf(incs, k)].updated_at)
               /\ \A i \in 1..Len(calls[m]) : calls[m][i].id \in ids]_vars

\* A processed non-initial cycle held one identity twice with two updated-at
\* values: the snapshot holds that identity alone, with the later value.
C17_Witness ==
    \E m \in monitors :
        /\ outcome[m] = "Processed"
        /\ ~initial[m]
        /\ Len(incidents[m]) = 2
        /\ incidents[m][1].id = incidents[m][2].id
        /\ incidents[m][1].updated_at # incidents[m][2].updated_at
        /\ seen_incidents[m] =
             [k \in {incidents[m][2].id} |-> isoformat(incidents[m][2].updated_at)]
        /\ calls[m] = <<incidents[m][2]>>

\* C18: the cycles of one monitor are strictly sequential: a fetch starts
\* only when the monitor has no cycle in flight, and when the cycle before
\* it was processed, every entry has been handled, every callback has
\* returned and the snapshot has been replaced.
C18_CyclesSequential ==
    [][\A m \in monitors :
         (pc'[m] = "await_resp" /\ pc[m] # "await_resp") =>
            /\ pc[m] \in {"idle", "sleeping"}
            /\ outcome[m] # "InFlight"
            /\ outcome[m] = "Processed" =>
                 /\ idx[m] > Len(entries[m])
                 /\ Len(incidents[m]) = Len(entries[m])
                 /\ seen_incidents[m] = new_seen[m]]_vars

\* The fetch of a later cycle is in flight after a processed cycle that
\* notified and left a snapshot.
C18_Witness ==
    \E m \in monitors :
        /\ pc[m] = "await_resp"
        /\ ~initial[m]
        /\ seen_incidents[m] # EmptyDict

\* The monitor whose task takes the step: its position, loop index or call
\* log changes.
Steps(m) ==
    \/ pc'[m] # pc[m]
    \/ idx'[m] # idx[m]
    \/ calls'[m] # calls[m]

\* C19: a step of monitor a leaves the validators and the snapshot of every
\* other monitor b as they were, and a callback invocation made by a's task
\* is logged for a's feed alone.
C19_MonitorsIsolated ==
    [][\A a \in monitors : \A b \in monitors \ {a} :
         Steps(a) =>
            /\ etag'[b] = etag[b]
            /\ last_modified'[b] = last_modified[b]
            /\ seen_incidents'[b] = seen_incidents[b]
            /\ calls'[b] = calls[b]]_vars

\* Both monitors hold a snapshot and validators of their own, one of them
\* with an ETag the other does not have.
C19_Witness ==
    \E a \in monitors : \E b \in monitors \ {a} :
        /\ seen_incidents[a] # EmptyDict
        /\ seen_incidents[b] = EmptyDict
        /\ outcome[b] = "Processed"
        /\ etag[a] # etag[b]

\* C20: after the termination request stop has been issued to every
\* monitor, and, callbacks returning, every monitor task ends Stopped and
\* run_monitors returns: no task that was still alive at the request ends
\* with an exception or a cancellation (both are final, the task would
\* never be Stopped), and run_monitors does not raise.
C20_TerminationStopsAll ==
    [][(/\ stop_requested
        /\ \A m \in monitors : pc[m] \notin {"failed", "cancelled"})
          => /\ \A m \in monitors :
                  /\ ~running'[m]
                  /\ \/ pc'[m] \notin {"failed", "cancelled"}
                     \/ outcome'[m] = "SinkFailure"
             /\ sup' # "raised"]_vars

\* C21: the first cycle of a monitor to reach _process_entries, when it
\* comes after failed or not-modified cycles and so runs with initial False,
\* sees an empty snapshot and invokes the callback for every incident of its
\* feed, in feed order.
C21_FirstProcessedNotifiesAll ==
    \A m \in monitors :
        (/\ prev_incidents[m] = {}
         /\ ~initial[m]
         /\ pc[m] \in {"process", "callback", "failed"})
            => /\ seen_incidents[m] = EmptyDict
               /\ ProcessingOver(m) =>
                    /\ Len(incidents[m]) = Len(entries[m])
                    /\ calls[m] = incidents[m]

\* C22: validators and snapshot stay in step: a cycle of a running monitor
\* that has stored the tokens of its 200 response ends only with the payload
\* of that response diffed and the snapshot replaced from it, so the
\* validators sent with the next request never stand for a payload that
\* was not diffed.
C22_ValidatorsInStepWithSnapshot ==
    [][\A m \in monitors :
         (/\ running[m]
          /\ pc[m] \in {"await_body", "process", "callback"}
          /\ etag[m] # None \/ last_modified[m] # None
          /\ outcome'[m] # "InFlight")
            => /\ outcome'[m] = "Processed"
               /\ seen_incidents'[m] = new_seen[m]]_vars

\* The sequence incs of incidents, or of entries, holds the identity k.
HasId(incs, k) == \E i \in 1..Len(incs) : incs[i].id = k

\* C23: an incident is forgotten once a processed cycle omits it: a
\* processed cycle whose feed lacks an identity of the cycle before it makes
\* no call for that identity, and the cycle after it, whose feed holds the
\* identity again with the updated-at it had two processed cycles ago,
\* invokes the callback for it.
C23_ForgottenWhenOmitted ==
    \A m \in monitors : \A k \in Ids :
        /\ (/\ \E p \in prev_incidents[m] : HasId(p, k)
            /\ ~HasId(entries[m], k)
            /\ pc[m] = "process" /\ idx[m] > Len(entries[m]))
              => ~HasId(calls[m], k)
        /\ \A v \in Stamps :
             (/\ \E o \in older_incidents[m] :
                    \E i \in 1..Len(o) : o[i] = [id |-> k, updated_at |-> v]
              /\ \E p \in prev_incidents[m] : ~HasId(p, k)
              /\ \E j \in 1..Len(entries[m]) :
                    entries[m][j] = [id |-> k, updated_parsed |-> v]
              /\ \/ pc[m] = "process" /\ idx[m] > Len(entries[m])
                 \/ pc[m] = "failed")
               => \E c \in 1..Len(calls[m]) :
                     calls[m][c] = [id |-> k, updated_at |-> v]

TypeOK ==
    /\ monitors \subseteq Names
    /\ sup \in {"init", "gathering", "returned", "raised"}
    /\ \A m \in monitors :
         /\ pc[m] \in {"idle", "await_resp", "await_body", "process", "callback",
                       "sleeping", "stopped", "failed", "cancelled"}
         /\ etag[m] \in ETags
         /\ last_modified[m] \in LastMods
         /\ Len(entries[m]) <= MaxEntries
         /\ idx[m] \in 1..(MaxEntries + 1)
         /\ sleep_left[m] \in 0..PollTicks
====
